---- MODULE Spec2Model ----
(***************************************************************************)
(* Model of gt-registration-agent (src/src/main.rs): one run of main, from *)
(* opening the read-only SQLite connection to printing the result table.   *)
(* Text is a sequence of characters, so that trimming, line                 *)
(* splitting, fence detection and joining are computed as the code does.   *)
(***************************************************************************)
EXTENDS Integers, Sequences, FiniteSets

VARIABLES
    pc,             \* position of main: the statement that runs next
    verbose,        \* args.verbose
    conn,           \* the SQLite connection ("none" before connect)
    prompt,         \* the conversation: sequence of [role, content]
    apiCalls,       \* number of chat().create() calls made
    response,       \* the completion response: [choices: Seq([content: Option])]
    response_text,  \* line 92: trimmed content of the first choice
    sql_text,       \* line 95: the shadowing response_text, fences stripped
    executed,       \* the SQL strings handed to conn.fetch_all, in call order
    fetch_result,   \* what fetch_all returned: "pending", "ok" or "err"
    rows,           \* the rows fetch_all returned
    ri,             \* index of the next row the for loop takes
    header_row,     \* the header_row vector
    table,          \* term_table::Table: [separate_rows, rows: Seq([cells, has_separator])]
    stdout,         \* what println! wrote
    stderr,         \* what eprintln! wrote
    err,            \* the error main ended with
    status,         \* process exit status, -1 while running
    stages          \* the pipeline stages entered so far, in order

vars == <<pc, verbose, conn, prompt, apiCalls, response, response_text, sql_text,
          executed, fetch_result, rows, ri, header_row, table, stdout, stderr,
          err, status, stages>>

----------------------------------------------------------------------------
(* Bounds *)

\* longest completion text, counted in tokens of TextTokens
MaxTokens == 5
\* most rows a query result holds
MaxRows == 2

----------------------------------------------------------------------------
(* Text *)

\* stands for the backquote character
BT == "BACKQUOTE"
SP == " "
LF == "\n"
CR == "\r"

\* char::is_whitespace, restricted to the characters of the model
IsWhitespace(c) == c \in {SP, LF, CR, "\t"}

\* str::trim
RECURSIVE TrimStart(_)
TrimStart(s) ==
    IF s = <<>> THEN <<>>
    ELSE IF IsWhitespace(Head(s)) THEN TrimStart(Tail(s))
    ELSE s

RECURSIVE TrimEnd(_)
TrimEnd(s) ==
    IF s = <<>> THEN <<>>
    ELSE IF IsWhitespace(s[Len(s)]) THEN TrimEnd(SubSeq(s, 1, Len(s) - 1))
    ELSE s

Trim(s) == TrimEnd(TrimStart(s))

\* str::starts_with
StartsWith(s, p) == Len(s) >= Len(p) /\ SubSeq(s, 1, Len(p)) = p

\* position of the first "\n" of s, 0 when there is none
FirstLF(s) ==
    IF \E k \in 1..Len(s) : s[k] = LF
    THEN CHOOSE k \in 1..Len(s) : s[k] = LF /\ \A j \in 1..(k - 1) : s[j] # LF
    ELSE 0

\* a line cut at its "\n" loses one "\r" that stood right before it
StripCR(l) ==
    IF l # <<>> /\ l[Len(l)] = CR THEN SubSeq(l, 1, Len(l) - 1) ELSE l

\* str::lines: split at "\n" or "\r\n"; the final line ending is optional and
\* the empty string has no lines
RECURSIVE Lines(_)
Lines(s) ==
    IF s = <<>> THEN <<>>
    ELSE LET k == FirstLF(s) IN
         IF k = 0 THEN <<s>>
         ELSE <<StripCR(SubSeq(s, 1, k - 1))>> \o Lines(SubSeq(s, k + 1, Len(s)))

Fence == <<BT, BT, BT>>

\* a filter that looks at the line as it stands, without trimming it first
IsFenceLineUntrimmed(line) == StartsWith(line, Fence)

\* the filter closure of line 97, negated: line.trim().starts_with(three backquotes)
IsFenceLine(line) == StartsWith(Trim(line), Fence)

\* a join that puts a space between the lines
JoinSpaces(ls) ==
    LET RECURSIVE J(_)
        J(r) == IF r = <<>> THEN <<>>
                ELSE IF Len(r) = 1 THEN r[1]
                ELSE r[1] \o <<SP>> \o J(Tail(r))
    IN  J(ls)

\* [&str]::join("\n")
Join(ls) ==
    LET RECURSIVE J(_)
        J(r) == IF r = <<>> THEN <<>>
                ELSE IF Len(r) = 1 THEN r[1]
                ELSE r[1] \o <<LF>> \o J(Tail(r))
    IN  J(ls)

\* a filter that keeps every line
KeepEveryLine(line) == TRUE

\* line 97: the filter closure
KeepLine(line) == ~IsFenceLine(line)

\* lines 95-99: lines().filter(..).collect::<Vec<_>>().join("\n")
Sanitized(text) == Join(SelectSeq(Lines(text), KeepLine))

----------------------------------------------------------------------------
(* Values of the run *)

None == [some |-> FALSE, val |-> <<>>]
Some(x) == [some |-> TRUE, val |-> x]

Ok(x) == [ok |-> TRUE, val |-> x]
Failure == [ok |-> FALSE, val |-> <<>>]

NoErr == [stage |-> "none", context |-> "none", kind |-> "none"]

\* the completion texts the pipeline is run on; "S" stands for a character of SQL
ReplyTexts ==
    { <<>>,
      <<SP>>,
      <<"S">>,
      <<SP, "S", LF>>,
      <<BT, BT, BT>>,
      <<BT, BT, BT, LF, SP, BT, BT, BT>>,
      <<BT, BT, BT, "s", "q", "l", LF, "S", LF, BT, BT, BT>> }

\* what chat().create() can return: an error, or a response with no choice, with
\* a choice without content, or with a choice holding a text
ApiResults ==
    { Failure, Ok([choices |-> <<>>]), Ok([choices |-> << [content |-> None] >>]) }
    \cup { Ok([choices |-> << [content |-> Some(t)] >>]) : t \in ReplyTexts }

\* every text of at most MaxTokens tokens, a token being one character or a fence
TextTokens == { <<SP>>, <<LF>>, <<CR>>, <<"S">>, <<BT>>, Fence }

RECURSIVE Flatten(_)
Flatten(ts) == IF ts = <<>> THEN <<>> ELSE Head(ts) \o Flatten(Tail(ts))

RawTexts ==
    UNION { { Flatten(ts) : ts \in [1..n -> TextTokens] } : n \in 0..MaxTokens }

\* column names
N_raw == <<"r", "a", "w">>
N_raw_score == <<"r", "a", "w", "_", "s", "c", "o", "r", "e">>
N_drawing == <<"d", "r", "a", "w", "i", "n", "g">>
N_crn == <<"c", "r", "n">>
N_count == <<"c", "o", "u", "n", "t">>
N_title == <<"t", "i", "t", "l", "e">>

\* column values: a text, a 64-bit integer, or a value of another storage class
TextVal(s) == [kind |-> "text", text |-> s, int |-> 0]
IntVal(n) == [kind |-> "int", text |-> <<>>, int |-> n]
OtherVal == [kind |-> "other", text |-> <<>>, int |-> 0]

Col(n, v) == [name |-> n, value |-> v]

\* the rows a query can return
ResultRows ==
    { << Col(N_crn, TextVal(<<"4", "2">>)) >>,
      << Col(N_count, IntVal(42)) >>,
      << Col(N_crn, OtherVal) >>,
      << Col(N_raw, OtherVal), Col(N_crn, TextVal(<<"C", "S">>)) >>,
      << Col(N_raw_score, IntVal(-7)), Col(N_raw, TextVal(<<"{", "}">>)) >>,
      << Col(N_crn, TextVal(<<"A">>)), Col(N_crn, IntVal(105)) >>,
      << Col(N_crn, TextVal(<<"B">>)), Col(N_title, TextVal(<<"M", "L">>)) >>,
      << Col(N_drawing, IntVal(0)), Col(N_title, OtherVal) >>,
      << Col(N_raw, TextVal(<<"{", "}">>)) >> }

ResultSets == UNION { [1..n -> ResultRows] : n \in 0..MaxRows }

\* what fetch_all can return
FetchResults == { Failure } \cup { Ok(rs) : rs \in ResultSets }

----------------------------------------------------------------------------
(* Rendering helpers *)

\* str::contains
Contains(s, p) ==
    \E k \in 1..(Len(s) - Len(p) + 1) : SubSeq(s, k, k + Len(p) - 1) = p

\* a test for the substring instead of the whole name
IsRawSubstring(name) == Contains(name, N_raw)

\* line 122: column.name() == "raw"
IsRaw(name) == name = N_raw

DigitChar(d) == <<"0", "1", "2", "3", "4", "5", "6", "7", "8", "9">>[d + 1]

RECURSIVE Digits(_)
Digits(n) ==
    IF n < 10 THEN <<DigitChar(n)>>
    ELSE Digits(n \div 10) \o <<DigitChar(n % 10)>>

\* i64::to_string
to_string(n) == IF n < 0 THEN <<"-">> \o Digits(-n) ELSE Digits(n)

\* row.try_get::<String, _>
TryGetString(v) == IF v.kind = "text" THEN Ok(v.text) ELSE Failure

\* row.try_get::<i64, _>
TryGetI64(v) == IF v.kind = "int" THEN Ok(v.int) ELSE Failure

\* a coercion that falls back to the empty text instead of failing
CellTextOrEmpty(v) ==
    IF TryGetString(v).ok THEN TryGetString(v)
    ELSE IF TryGetI64(v).ok THEN Ok(to_string(TryGetI64(v).val))
    ELSE Ok(<<>>)

\* lines 128-130: try_get::<String>, or else try_get::<i64> and to_string
CellText(v) ==
    IF TryGetString(v).ok THEN TryGetString(v)
    ELSE IF TryGetI64(v).ok THEN Ok(to_string(TryGetI64(v).val))
    ELSE Failure

\* try_get takes the column NAME: the ways the names of a row resolve to columns
\* (look[j] is the column that a lookup of the name of column j reads; one name
\* resolves to one column, whichever of the columns of that name it is)
Lookups(row) ==
    { look \in [1..Len(row) -> 1..Len(row)] :
        \A j \in 1..Len(row) :
            /\ row[look[j]].name = row[j].name
            /\ \A k \in 1..Len(row) : row[k].name = row[j].name => look[k] = look[j] }

\* a header that is not cleared between rows
HeaderKept(h) == h

\* line 120: header_row.clear()
HeaderCleared(h) == <<>>

\* a data row that keeps the separator flag Row::new gave it
DataRowDefault(cells) == [cells |-> cells, has_separator |-> TRUE]

\* lines 135-136: Row::new(tab_row) with has_separator = false
DataRow(cells) == [cells |-> cells, has_separator |-> FALSE]

\* line 141: Row::new(header_row); Row::new sets has_separator
HeaderRow(cells) == [cells |-> cells, has_separator |-> TRUE]

\* lines 121-133: the column loop of one row, from column j on; ok is FALSE when
\* the ? of line 130 returned
RECURSIVE ColumnLoop(_, _, _, _, _)
ColumnLoop(row, look, j, hdr, cells) ==
    IF j > Len(row) THEN [ok |-> TRUE, hdr |-> hdr, cells |-> cells]
    ELSE IF IsRaw(row[j].name) THEN ColumnLoop(row, look, j + 1, hdr, cells)
    ELSE LET string_val == CellText(row[look[j]].value) IN
         IF string_val.ok
         THEN ColumnLoop(row, look, j + 1, Append(hdr, row[j].name),
                         Append(cells, string_val.val))
         ELSE [ok |-> FALSE, hdr |-> Append(hdr, row[j].name), cells |-> cells]

----------------------------------------------------------------------------
(* The run of main *)

NoTable == [style |-> "none", separate_rows |-> FALSE, rows |-> <<>>]

\* lines 111-113: Table::new(), rounded style, separate_rows = true
NewTable == [style |-> "rounded", separate_rows |-> TRUE, rows |-> <<>>]

\* lines 32-36: the connection, opened read-only
OpenConn == [read_only |-> TRUE]

\* lines 42-67: the three turns of the conversation
BuiltPrompt ==
    << [role |-> "System", content |-> "instructions and schema"],
       [role |-> "User", content |-> "question"],
       [role |-> "System", content |-> "output directive"] >>

\* the stage an action belongs to is recorded when the run enters it
Enter(stage) ==
    IF stages # <<>> /\ stages[Len(stages)] = stage THEN stages
    ELSE Append(stages, stage)

\* main ends with an error: Err returned from main exits with status 1 and the
\* report on stderr, a panic exits with status 101 and its message on stderr
Fail(stage, context, kind) ==
    /\ pc' = "failed"
    /\ err' = [stage |-> stage, context |-> context, kind |-> kind]
    /\ status' = IF kind = "panic" THEN 101 ELSE 1
    /\ stderr' = Append(stderr, [kind |-> kind, text |-> context])

Init ==
    /\ pc = "parse_db"
    /\ verbose \in BOOLEAN
    /\ conn = "none"
    /\ prompt = <<>>
    /\ apiCalls = 0
    /\ response = [choices |-> <<>>]
    /\ response_text = <<>>
    /\ sql_text = <<>>
    /\ executed = <<>>
    /\ fetch_result = "pending"
    /\ rows = <<>>
    /\ ri = 1
    /\ header_row = <<>>
    /\ table = NoTable
    /\ stdout = <<>>
    /\ stderr = <<>>
    /\ err = NoErr
    /\ status = -1
    /\ stages = <<>>

\* lines 32-33: SqliteConnectOptions::from_str(&args.db).wrap_err(..)?
ParseDb ==
    /\ pc = "parse_db"
    /\ stages' = Enter("Connect")
    /\ \E valid \in BOOLEAN :
        IF valid
        THEN /\ pc' = "connect"
             /\ UNCHANGED <<err, status, stderr>>
        ELSE Fail("Connect", "Invalid db connection string", "error")
    /\ UNCHANGED <<verbose, conn, prompt, apiCalls, response, response_text,
                   sql_text, executed, fetch_result, rows, ri, header_row,
                   table, stdout>>

\* lines 34-36: .read_only(true).connect().await?
Connect ==
    /\ pc = "connect"
    /\ stages' = Enter("Connect")
    /\ \E opened \in BOOLEAN :
        IF opened
        THEN /\ conn' = OpenConn
             /\ pc' = "build"
             /\ UNCHANGED <<err, status, stderr>>
        ELSE /\ Fail("Connect", "none", "error")
             /\ UNCHANGED conn
    /\ UNCHANGED <<verbose, prompt, apiCalls, response, response_text,
                   sql_text, executed, fetch_result, rows, ri, header_row,
                   table, stdout>>

\* lines 38-83: the client, the prompt and the request
Build ==
    /\ pc = "build"
    /\ stages' = Enter("Build")
    /\ prompt' = BuiltPrompt
    /\ pc' = "generate"
    /\ UNCHANGED <<verbose, conn, apiCalls, response, response_text, sql_text,
                   executed, fetch_result, rows, ri, header_row, table, stdout,
                   stderr, err, status>>

\* lines 85-89: chat().create(request).await.wrap_err(..)?
Generate ==
    /\ pc = "generate"
    /\ stages' = Enter("Generate")
    /\ apiCalls' = apiCalls + 1
    /\ \E r \in ApiResults :
        IF r.ok
        THEN /\ response' = r.val
             /\ pc' = "extract"
             /\ UNCHANGED <<err, status, stderr>>
        ELSE /\ Fail("Generate", "Failed to open result stream from OpenAI", "error")
             /\ UNCHANGED response
    /\ UNCHANGED <<verbose, conn, prompt, response_text, sql_text, executed,
                   fetch_result, rows, ri, header_row, table, stdout>>

\* line 92: response.choices[0].message.content.as_ref().unwrap().trim()
Extract ==
    /\ pc = "extract"
    /\ stages' = Enter("Generate")
    /\ IF response.choices = <<>>
       THEN /\ Fail("Generate", "none", "panic")      \* index out of bounds
            /\ UNCHANGED response_text
       ELSE IF ~response.choices[1].content.some
       THEN /\ Fail("Generate", "none", "panic")      \* unwrap on None
            /\ UNCHANGED response_text
       ELSE /\ response_text' = Trim(response.choices[1].content.val)
            /\ pc' = "sanitize"
            /\ UNCHANGED <<err, status, stderr>>
    /\ UNCHANGED <<verbose, conn, prompt, apiCalls, response, sql_text, executed,
                   fetch_result, rows, ri, header_row, table, stdout>>

\* lines 94-103: strip the fence lines; eprintln! the result when verbose
Sanitize ==
    /\ pc = "sanitize"
    /\ stages' = Enter("Sanitize")
    /\ sql_text' = Sanitized(response_text)
    /\ stderr' = IF verbose THEN Append(stderr, [kind |-> "sql", text |-> sql_text'])
                 ELSE stderr
    /\ pc' = "execute"
    /\ UNCHANGED <<verbose, conn, prompt, apiCalls, response, response_text,
                   executed, fetch_result, rows, ri, header_row, table, stdout,
                   err, status>>

\* lines 105-115: conn.fetch_all(response_text.as_str()).await.wrap_err(..)?,
\* then the empty table and the empty header_row
Execute ==
    /\ pc = "execute"
    /\ stages' = Enter("Execute")
    /\ executed' = Append(executed, sql_text)
    /\ \E r \in FetchResults :
        IF r.ok
        THEN /\ fetch_result' = "ok"
             /\ rows' = r.val
             /\ ri' = 1
             /\ table' = NewTable
             /\ header_row' = <<>>
             /\ pc' = "render"
             /\ UNCHANGED <<err, status, stderr>>
        ELSE /\ fetch_result' = "err"
             /\ Fail("Execute", "Failed to execute SQL query", "error")
             /\ UNCHANGED <<rows, ri, table, header_row>>
    /\ UNCHANGED <<verbose, conn, prompt, apiCalls, response, response_text,
                   sql_text, stdout>>

\* lines 118-138: one iteration of the for loop over the rows
RenderRow ==
    /\ pc = "render"
    /\ ri <= Len(rows)
    /\ stages' = Enter("Render")
    /\ \E look \in Lookups(rows[ri]) :
        LET done == ColumnLoop(rows[ri], look, 1, HeaderCleared(header_row), <<>>) IN
        /\ header_row' = done.hdr
        /\ IF done.ok
           THEN /\ table' = [table EXCEPT !.rows = Append(@, DataRow(done.cells))]
                /\ ri' = ri + 1
                /\ UNCHANGED <<pc, err, status, stderr>>
           ELSE /\ Fail("Render", "none", "error")
                /\ UNCHANGED <<table, ri>>
    /\ UNCHANGED <<verbose, conn, prompt, apiCalls, response, response_text,
                   sql_text, executed, fetch_result, rows, stdout>>

\* lines 140-146: table.rows.insert(0, header); rows[1].has_separator = true
RenderFinish ==
    /\ pc = "render"
    /\ ri > Len(rows)
    /\ stages' = Enter("Render")
    /\ LET inserted == <<HeaderRow(header_row)>> \o table.rows IN
       table' = [table EXCEPT !.rows =
                    IF Len(inserted) > 1
                    THEN [inserted EXCEPT ![2].has_separator = TRUE]
                    ELSE inserted]
    /\ pc' = "print"
    /\ UNCHANGED <<verbose, conn, prompt, apiCalls, response, response_text,
                   sql_text, executed, fetch_result, rows, ri, header_row, stdout,
                   stderr, err, status>>

\* lines 148-151: println!("{}", table.render()); Ok(())
PrintTable ==
    /\ pc = "print"
    /\ stages' = Enter("Print")
    /\ stdout' = Append(stdout, table)
    /\ status' = 0
    /\ pc' = "done"
    /\ UNCHANGED <<verbose, conn, prompt, apiCalls, response, response_text,
                   sql_text, executed, fetch_result, rows, ri, header_row, table,
                   stderr, err>>

Next ==
    \/ ParseDb
    \/ Connect
    \/ Build
    \/ Generate
    \/ Extract
    \/ Sanitize
    \/ Execute
    \/ RenderRow
    \/ RenderFinish
    \/ PrintTable

Spec == Init /\ [][Next]_vars

\* The sanitizer on every text: main stands at line 92 with a response whose
\* first choice holds any text of RawTexts, and runs lines 92-103.
InitSan ==
    /\ pc = "extract"
    /\ verbose \in BOOLEAN
    /\ conn = OpenConn
    /\ prompt = BuiltPrompt
    /\ apiCalls = 1
    /\ \E t \in RawTexts : response = [choices |-> << [content |-> Some(t)] >>]
    /\ response_text = <<>>
    /\ sql_text = <<>>
    /\ executed = <<>>
    /\ fetch_result = "pending"
    /\ rows = <<>>
    /\ ri = 1
    /\ header_row = <<>>
    /\ table = NoTable
    /\ stdout = <<>>
    /\ stderr = <<>>
    /\ err = NoErr
    /\ status = -1
    /\ stages = <<"Connect", "Build", "Generate">>

NextSan ==
    \/ Extract
    \/ Sanitize

SpecSan == InitSan /\ [][NextSan]_vars

----------------------------------------------------------------------------
(* Vocabulary of the properties, stated without the operators of the code *)

\* the trimmed form of the line starts with three backquotes
FenceMarked(l) ==
    \E k \in 1..(Len(l) - 2) :
        /\ \A j \in 1..(k - 1) : IsWhitespace(l[j])
        /\ l[k] = BT /\ l[k + 1] = BT /\ l[k + 2] = BT

NotFenceMarked(l) == ~FenceMarked(l)

\* the pieces of s between its newlines (one piece when there is no newline)
RECURSIVE SplitLF(_)
SplitLF(s) ==
    LET k == FirstLF(s) IN
    IF k = 0 THEN <<s>>
    ELSE <<SubSeq(s, 1, k - 1)>> \o SplitLF(SubSeq(s, k + 1, Len(s)))

IsPrefix(s, t) == Len(s) <= Len(t) /\ SubSeq(t, 1, Len(s)) = s

StageRan(stage) == \E i \in 1..Len(stages) : stages[i] = stage

\* the text of the first choice, as the service sent it
Content == response.choices[1].content.val

NotRawCol(c) == c.name # N_raw

\* the names of the columns of a row that are not named raw, in column order
NonRawNames(row) ==
    LET cs == SelectSeq(row, NotRawCol) IN [j \in 1..Len(cs) |-> cs[j].name]

\* the display text of a value: its text, or the decimal text of its integer
Coercible(v) == v.kind \in {"text", "int"}
Shown(v) == IF v.kind = "text" THEN v.text ELSE to_string(v.int)

\* the data rows of the table: the header is inserted in front of them at the end
DataRows == IF pc \in {"print", "done"} THEN Tail(table.rows) ELSE table.rows

\* term_table draws a line above row i > 1 when the table separates rows and the
\* row asks for a separator
SeparatorAbove(i) == table.separate_rows /\ table.rows[i].has_separator

StageOrder ==
    <<"Connect", "Build", "Generate", "Sanitize", "Execute", "Render", "Print">>

----------------------------------------------------------------------------
(* C1 *)

\* C1: once the sanitizer has run, no line of the SQL is a fence line, and the
\* SQL cut at its newlines is exactly the non-fence lines of the text the
\* generator returned, in their order (the empty SQL when none remains).
C1_FenceLinesStripped ==
    StageRan("Sanitize") =>
        /\ \A i \in 1..Len(Lines(sql_text)) : ~FenceMarked(Lines(sql_text)[i])
        /\ \A i \in 1..Len(SplitLF(sql_text)) : ~FenceMarked(SplitLF(sql_text)[i])
        /\ LET kept == SelectSeq(Lines(response_text), NotFenceMarked) IN
           IF kept = <<>> THEN sql_text = <<>> ELSE SplitLF(sql_text) = kept

\* C1 witness: a fence line in the middle, between two lines that stay
C1_Witness ==
    /\ StageRan("Sanitize")
    /\ Len(Lines(response_text)) = 3
    /\ ~FenceMarked(Lines(response_text)[1])
    /\ FenceMarked(Lines(response_text)[2])
    /\ ~FenceMarked(Lines(response_text)[3])
    /\ Len(SplitLF(sql_text)) = 2

----------------------------------------------------------------------------
(* C2 *)

NoFenceLine(t) == \A i \in 1..Len(Lines(t)) : ~FenceMarked(Lines(t)[i])

\* no whitespace at either end and no carriage return right before a newline
PlainText(t) ==
    /\ t # <<>> => ~IsWhitespace(t[1]) /\ ~IsWhitespace(t[Len(t)])
    /\ \A k \in 1..(Len(t) - 1) : ~(t[k] = CR /\ t[k + 1] = LF)

\* C2 as stated: for every text without a fence line, the sanitized SQL equals
\* the text unchanged.
C2_IdentityOnAnyNoFenceText ==
    StageRan("Sanitize") /\ NoFenceLine(Content) => sql_text = Content

\* C2 amended: for every text without a fence line that has no whitespace at
\* either end and no carriage return before a newline, the sanitized SQL equals
\* the text unchanged (blank lines and lone carriage returns inside included).
C2_IdentityOnPlainNoFenceText ==
    StageRan("Sanitize") /\ NoFenceLine(Content) /\ PlainText(Content)
        => sql_text = Content

\* C2 witness: a plain text of three lines, the middle one blank
C2_Witness ==
    /\ StageRan("Sanitize")
    /\ NoFenceLine(Content)
    /\ PlainText(Content)
    /\ Len(Lines(Content)) = 3
    /\ Lines(Content)[2] = <<>>
    /\ sql_text = Content

----------------------------------------------------------------------------
(* C3 *)

\* every displayed column of the row can be read: some column of its name holds
\* a text or an integer
RowCoerces(row) ==
    \A j \in 1..Len(row) :
        row[j].name # N_raw =>
            \E k \in 1..Len(row) : row[k].name = row[j].name /\ Coercible(row[k].value)

C3_State ==
    /\ IsPrefix(stages, StageOrder)
    /\ pc = "failed" =>
        /\ status \notin {-1, 0}
        /\ stdout = <<>>
        /\ stages # <<>> /\ err.stage = stages[Len(stages)]
    /\ stdout # <<>> =>
        /\ Len(stdout) = 1
        /\ err = NoErr
        /\ stages = StageOrder
        /\ fetch_result = "ok"
        /\ \A k \in 1..Len(rows) : RowCoerces(rows[k])
    /\ status = 0 <=> pc = "done"

\* C3: the stages are entered in their fixed order, each once; a failed run has
\* a non-zero status and an empty standard output and takes no further step;
\* the table is printed only when every stage and every row coercion succeeded.
C3_TerminalOnFailure ==
    /\ []C3_State
    /\ [][pc = "failed" => UNCHANGED vars]_vars

\* C3 witness: rendering fails on a later row, after a data row was built
C3_Witness ==
    /\ pc = "failed"
    /\ err.stage = "Render"
    /\ Len(table.rows) >= 1
    /\ stdout = <<>>

----------------------------------------------------------------------------
(* C4 *)

\* C4: every failure that ends the run carries a contextual message added by the
\* stage that failed.
C4_EveryFailureHasContext == pc = "failed" => err.context # "none"

----------------------------------------------------------------------------
(* C5 *)

ReplyUnusable ==
    \/ response.choices = <<>>
    \/ ~response.choices[1].content.some
    \/ Trim(Content) = <<>>

\* C5: the service is called at most once, and when the call fails or the reply
\* has no choice, no content, or a content that is empty after trimming, the run
\* ends at the Generate stage: no SQL reaches the executor, no table is printed.
C5_UnusableReplyAbortsAtGenerate ==
    /\ apiCalls <= 1
    /\ (apiCalls = 1 /\ pc # "extract" /\ ReplyUnusable) =>
        /\ executed = <<>>
        /\ stdout = <<>>
        /\ pc \notin {"render", "print", "done"}
        /\ pc = "failed" => err.stage = "Generate"

----------------------------------------------------------------------------
(* C6 *)

\* C6: no header entry is named raw; every data row has one cell per column
\* that is not named raw (so raw_score and drawing are shown); the header holds
\* the non-raw names of the row processed last; and a rendering error means
\* that a column not named raw holds a value that is neither text nor integer.
C6_RawExcluded ==
    /\ \A i \in 1..Len(header_row) : header_row[i] # N_raw
    /\ \A k \in 1..Len(DataRows) :
        Len(DataRows[k].cells) = Len(SelectSeq(rows[k], NotRawCol))
    /\ (pc \in {"render", "print", "done"} /\ ri > 1) =>
        \A j \in 1..Len(rows[ri - 1]) :
            rows[ri - 1][j].name # N_raw =>
                \E i \in 1..Len(header_row) : header_row[i] = rows[ri - 1][j].name
    /\ (pc = "failed" /\ err.stage = "Render") =>
        \E j \in 1..Len(rows[ri]) :
            rows[ri][j].name # N_raw /\ ~Coercible(rows[ri][j].value)

\* C6 witness: a printed result with a raw column holding an unreadable value
\* and a column whose name contains raw
C6_Witness ==
    /\ pc = "done"
    /\ \E k \in 1..Len(rows) : \E j \in 1..Len(rows[k]) :
        rows[k][j].name = N_raw /\ ~Coercible(rows[k][j].value)
    /\ \E k \in 1..Len(rows) : \E j \in 1..Len(rows[k]) :
        rows[k][j].name = N_raw_score
    /\ \E i \in 1..Len(header_row) : header_row[i] = N_raw_score

----------------------------------------------------------------------------
(* C7 *)

\* C7: the cells of every data row are the display texts of the values of its
\* columns that are not named raw, column by column; and a failed rendering
\* leaves the table unprinted.
C7_CellIsItsColumnsValue ==
    /\ \A k \in 1..Len(DataRows) :
        LET cs == SelectSeq(rows[k], NotRawCol) IN
        DataRows[k].cells = [j \in 1..Len(cs) |-> Shown(cs[j].value)]
    /\ (pc = "failed" /\ err.stage = "Render") => stdout = <<>>

----------------------------------------------------------------------------
(* C8 *)

\* C8 as stated: the header of the finished table is the non-raw column names of
\* the first row.
C8_HeaderFromFirstRow ==
    (pc \in {"print", "done"} /\ rows # <<>>) =>
        table.rows[1].cells = NonRawNames(rows[1])

\* C8 amended: the header of the finished table is the non-raw column names of
\* the last row, in column order.
C8_HeaderFromLastRow ==
    (pc \in {"print", "done"} /\ rows # <<>>) =>
        table.rows[1].cells = NonRawNames(rows[Len(rows)])

\* C8 witness: a printed result whose first and last row differ in their columns
C8_Witness ==
    /\ pc = "done"
    /\ Len(rows) >= 2
    /\ NonRawNames(rows[1]) # NonRawNames(rows[Len(rows)])

----------------------------------------------------------------------------
(* C9 *)

\* C9: the finished table of a result of n rows holds n+1 rows, the header first
\* and then one data row per result row in result order; a separator is drawn
\* above the first data row and above no later row; for n = 0 the table is one
\* empty header row and the run succeeds.
C9_TableLayout ==
    pc \in {"print", "done"} =>
        /\ Len(table.rows) = Len(rows) + 1
        /\ table.rows[1].cells = header_row
        /\ \A k \in 1..Len(rows) :
            LET names == NonRawNames(rows[k])
                cells == table.rows[k + 1].cells IN
            /\ Len(cells) = Len(names)
            /\ \A j \in 1..Len(names) :
                \E c \in 1..Len(rows[k]) :
                    /\ rows[k][c].name = names[j]
                    /\ Coercible(rows[k][c].value)
                    /\ cells[j] = Shown(rows[k][c].value)
        /\ Len(rows) >= 1 => SeparatorAbove(2)
        /\ \A i \in 3..Len(table.rows) : ~SeparatorAbove(i)
        /\ Len(rows) = 0 => table.rows[1].cells = <<>> /\ err = NoErr
        /\ pc = "done" => stdout = <<table>> /\ status = 0

\* C9 witness: a printed table of two different data rows
C9_Witness ==
    /\ pc = "done"
    /\ Len(rows) = 2
    /\ rows[1] # rows[2]
    /\ table.rows[2].cells # table.rows[3].cells

----------------------------------------------------------------------------
(* C10 *)

\* the generator returned at least one line and every line is a fence line
AllFence(t) == Lines(t) # <<>> /\ \A i \in 1..Len(Lines(t)) : FenceMarked(Lines(t)[i])

====
